---- MODULE Spec2Model ----
(***************************************************************************)
(* PDF region selector: the annotation engine of App.jsx in its three      *)
(* variants (state-based rectangles, ref-based rectangles, signature       *)
(* points) and the PDFViewer component that renders a page.                *)
(*                                                                         *)
(* Canvas coordinates are JavaScript numbers.  A finite one is kept as an  *)
(* integer count of half pixels, so that the fractional positions a        *)
(* display scale of 1/2 produces are exact; the non-finite ones (NaN,      *)
(* Infinity, -Infinity) are kept as such.  Math.round returns whole pixels.*)
(***************************************************************************)
EXTENDS Integers, Sequences, FiniteSets

(***************************************************************************)
(* Bounds of the model.                                                    *)
(***************************************************************************)
MaxRects == 2
MaxPages == 2
MaxFiles == 1
MaxClock == 2
MaxJobs == 3
MaxStored == 3
MaxPixels == 100
MaxLoads == 2
MaxShown == 1

(***************************************************************************)
(* Program constants.                                                      *)
(***************************************************************************)
DOCUSIGN_DPI == 72
UI_DPI == 96
MinSize == 5
YOffset == 10

(***************************************************************************)
(* JavaScript numbers.                                                     *)
(***************************************************************************)
Fin(v) == [k |-> "fin", v |-> v]
NaN == [k |-> "nan", v |-> 0]
PosInf == [k |-> "inf", v |-> 0]
NegInf == [k |-> "ninf", v |-> 0]

isFinite(a) == a.k = "fin"

\* Math.min(a, b)
MathMin(a, b) ==
  IF a.k = "nan" \/ b.k = "nan" THEN NaN
  ELSE IF a.k = "ninf" \/ b.k = "ninf" THEN NegInf
  ELSE IF a.k = "inf" THEN b
  ELSE IF b.k = "inf" THEN a
  ELSE IF a.v <= b.v THEN a ELSE b

\* a - b
Minus(a, b) ==
  IF a.k = "nan" \/ b.k = "nan" THEN NaN
  ELSE IF a.k = "inf" THEN (IF b.k = "inf" THEN NaN ELSE PosInf)
  ELSE IF a.k = "ninf" THEN (IF b.k = "ninf" THEN NaN ELSE NegInf)
  ELSE IF b.k = "inf" THEN NegInf
  ELSE IF b.k = "ninf" THEN PosInf
  ELSE Fin(a.v - b.v)

\* Math.abs(a)
MathAbs(a) ==
  IF a.k = "ninf" THEN PosInf
  ELSE IF a.k = "fin" /\ a.v < 0 THEN Fin(0 - a.v)
  ELSE a

\* Math.round(a): half pixels in, whole pixels out, halves rounded up.
MathRound(a) ==
  IF a.k = "fin" THEN Fin((a.v + 1) \div 2) ELSE a

\* a > n, for a whole-pixel number a and an integer n
GreaterThan(a, n) ==
  IF a.k = "fin" THEN a.v > n ELSE a.k = "inf"

\* Fault model for pixelsToPoints: the guard and Math.max left out.
pixelsToPointsUnguarded(h) ==
  IF ~isFinite(h) THEN 0
  ELSE (h.v * DOCUSIGN_DPI + UI_DPI) \div (2 * UI_DPI)

\* Fault model for pixelsToPoints: Math.floor in the place of Math.round.
pixelsToPointsFloored(h) ==
  IF ~isFinite(h) \/ h.v < 0 THEN 0
  ELSE (h.v * DOCUSIGN_DPI) \div (2 * UI_DPI)

\* pixelsToPoints(pixels), pixels given in half pixels:
\* Math.max(0, Math.round((pixels * 72) / 96)), halves rounded up, and 0
\* for a negative or non-finite input.
pixelsToPoints(h) ==
  IF ~isFinite(h) \/ h.v < 0 THEN 0
  ELSE LET r == (h.v * DOCUSIGN_DPI + UI_DPI) \div (2 * UI_DPI)
       IN  IF r > 0 THEN r ELSE 0

\* Fault model for pointsToPixels: the ratio of pixelsToPoints, 72/96.
pointsToPixelsSameRatio(points) ==
  IF points < 0 THEN 0
  ELSE (2 * points * DOCUSIGN_DPI + UI_DPI) \div (2 * UI_DPI)

\* pointsToPixels(points), points a whole number:
\* Math.max(0, Math.round((points * 96) / 72)), and 0 for a negative input.
pointsToPixels(points) ==
  IF points < 0 THEN 0
  ELSE (2 * points * UI_DPI + DOCUSIGN_DPI) \div (2 * DOCUSIGN_DPI)

\* A whole-pixel number as half pixels (the argument of pixelsToPoints).
Whole(a) == IF a.k = "fin" THEN Fin(2 * a.v) ELSE a

(***************************************************************************)
(* Values of the session.                                                  *)
(***************************************************************************)
Variants == {"state", "ref", "point"}
Files == 1 .. MaxFiles
NoFile == 0

\* fieldMappings = {}: no field has a mapping
NoMappings == [f \in {} |-> << >>]

\* no unit conversion in progress
NoConversion == [pc |-> "none", pixels |-> Fin(0), points |-> 0, back |-> 0]

\* null, and a position {x, y}
NullPos == [null |-> TRUE, x |-> Fin(0), y |-> Fin(0)]
Pos(x, y) == [null |-> FALSE, x |-> x, y |-> y]

\* null, and a rectangle in progress {x1, y1, x2, y2}
NullRect == [null |-> TRUE, x1 |-> Fin(0), y1 |-> Fin(0), x2 |-> Fin(0), y2 |-> Fin(0)]
Rect(x1, y1, x2, y2) == [null |-> FALSE, x1 |-> x1, y1 |-> y1, x2 |-> x2, y2 |-> y2]

\* A pointer event as the handlers read it: the pointer's offset in the
\* displayed box (clientX - rect.left, clientY - rect.top), the canvas
\* dimensions (canvas.width, canvas.height) and the displayed box
\* (rect.width, rect.height).
Event(ox, oy, cw, ch, rw, rh) ==
  [ox |-> ox, oy |-> oy, cw |-> cw, ch |-> ch, rw |-> rw, rh |-> rh]

PointerEvents ==
  { Event(0, 0, 24, 24, 24, 24),
    Event(12, 12, 24, 24, 24, 24),
    Event(9, 12, 24, 24, 48, 48),
    Event(12, 12, 24, 24, 0, 0) }

\* offset * (canvas / displayed), as JavaScript computes it
Scaled(o, c, r) ==
  IF r = 0
  THEN IF c = 0 \/ o = 0 THEN NaN ELSE IF o > 0 THEN PosInf ELSE NegInf
  ELSE Fin((2 * o * c) \div r)

VARIABLES
  variant,        \* which App this session runs
  pdfFile,        \* useState(null)
  pdfFileName,    \* useState(null)
  pdfDoc,         \* useState(null)
  currentPage,    \* useState(1)
  totalPages,     \* useState(0)
  rectangles,     \* useState([]); signaturePoints in the point variant
  isDrawing,      \* useState(false) / drawingStateRef.current.isDrawing
  startPos,       \* useState(null)  / drawingStateRef.current.startPos
  currentRect,    \* useState(null)  / drawingStateRef.current.currentRect
  jumpToPage,     \* useState(''), point variant
  loading,        \* the uploads whose handleFileUpload is awaiting
  now,            \* the last value Date.now() returned
  raised,         \* whether the last handler ended by throwing
  pressPage,      \* history: the page that was current at the last pointer-down
  fieldMappings,  \* the fieldMappings prop of FieldList: field name -> mapping
  conversion,     \* a unit conversion in progress: its input and results
  timedOut        \* the loading tasks still decoding that lost Promise.race to the timeout

vars == << variant, pdfFile, pdfFileName, pdfDoc, currentPage, totalPages,
           rectangles, isDrawing, startPos, currentRect, jumpToPage,
           loading, now, raised, pressPage, fieldMappings, conversion,
           timedOut >>

\* what the handlers of the App never touch
sideVars == << fieldMappings, conversion, timedOut >>

(***************************************************************************)
(* PDFViewer, rendered by the App while a document is loaded.  Each run of the effect starts one renderPage, an async      *)
(* function that awaits pdfDoc.getPage, then starts page.render and awaits *)
(* it, then calls onPageRender.  jobs holds the runs that have not         *)
(* settled, and the settled run renderTaskRef.current still refers to.     *)
(***************************************************************************)
VARIABLES
  viewerKind,     \* the guarded (try/catch) or the plain PDFViewer
  pageNum,        \* the pageNum prop; 0 while the viewer is not mounted
  jobs,           \* the runs of renderPage: [page, pc]
  renderTaskRef,  \* renderTaskRef.current: the run whose render task it holds, 0 for null
  errorShown,     \* whether the catch block has drawn 'Error loading page'
  overlay,        \* the overlay canvas: the dependencies its draw effect last ran
                  \* with, and what the canvas shows
  listeners       \* the keydown listeners on window, the one the keyboard effect
                  \* added last, and whether the App is mounted

viewerVars == << viewerKind, pageNum, jobs, renderTaskRef, errorShown, overlay,
                listeners >>

docVars == << pdfFile, pdfFileName, pdfDoc, totalPages >>
gestureVars == << isDrawing, startPos, currentRect >>

InitApp ==
  /\ variant \in Variants
  /\ pdfFile = NoFile
  /\ pdfFileName = NoFile
  /\ pdfDoc = NoFile
  /\ currentPage = 1
  /\ totalPages = 0
  /\ rectangles = << >>
  /\ isDrawing = FALSE
  /\ startPos = NullPos
  /\ currentRect = NullRect
  /\ jumpToPage = << >>
  /\ loading = {}
  /\ now = 1
  /\ raised = FALSE
  /\ pressPage = 0
  /\ fieldMappings = NoMappings
  /\ conversion = NoConversion
  /\ timedOut = {}

(***************************************************************************)
(* CoordinateTransform.                                                    *)
(***************************************************************************)
\* getCanvasCoordinates of the state-based variant: no guard at all.
getCanvasCoordinatesState(e) ==
  Pos(Scaled(e.ox, e.cw, e.rw), Scaled(e.oy, e.ch, e.rh))

\* getCanvasCoordinates of the ref-based rectangle variant.
getCanvasCoordinatesRef(e) ==
  IF e.rw = 0 \/ e.rh = 0 THEN NullPos
  ELSE LET x == Scaled(e.ox, e.cw, e.rw)
           y == Scaled(e.oy, e.ch, e.rh)
       IN  IF ~isFinite(x) \/ ~isFinite(y) THEN NullPos ELSE Pos(x, y)

\* getCanvasCoordinates of the point variant: y = Math.max(0, y - 10).
getCanvasCoordinatesPoint(e) ==
  IF e.rw = 0 \/ e.rh = 0 THEN NullPos
  ELSE LET x == Scaled(e.ox, e.cw, e.rw)
           y0 == Scaled(e.oy, e.ch, e.rh)
           y == IF isFinite(y0)
                THEN (IF y0.v - 2 * YOffset > 0 THEN Fin(y0.v - 2 * YOffset) ELSE Fin(0))
                ELSE y0
       IN  IF ~isFinite(x) \/ ~isFinite(y) THEN NullPos ELSE Pos(x, y)

getCanvasCoordinates(e) ==
  CASE variant = "state" -> getCanvasCoordinatesState(e)
    [] variant = "ref"   -> getCanvasCoordinatesRef(e)
    [] variant = "point" -> getCanvasCoordinatesPoint(e)

\* getTopLeftCoordinates(x1, y1, x2, y2)
getTopLeftCoordinates(x1, y1, x2, y2) ==
  [ x      |-> MathRound(MathMin(x1, x2)),
    y      |-> MathRound(MathMin(y1, y2)),
    width  |-> MathRound(MathAbs(Minus(x2, x1))),
    height |-> MathRound(MathAbs(Minus(y2, y1))) ]

\* The rectangle handleMouseUp commits from coords, on page `page` with id `id`.
NewRect(coords, page, id) ==
  IF variant = "ref"
  THEN [ x |-> coords.x, y |-> coords.y,
         width |-> coords.width, height |-> coords.height,
         xPoints      |-> pixelsToPoints(Whole(coords.x)),
         yPoints      |-> pixelsToPoints(Whole(coords.y)),
         widthPoints  |-> pixelsToPoints(Whole(coords.width)),
         heightPoints |-> pixelsToPoints(Whole(coords.height)),
         pageNum |-> page, id |-> id ]
  ELSE [ x |-> coords.x, y |-> coords.y,
         width |-> coords.width, height |-> coords.height,
         pageNum |-> page, id |-> id ]

\* coords.width > 5 && coords.height > 5
MeaningfulSize(coords) ==
  GreaterThan(coords.width, MinSize) /\ GreaterThan(coords.height, MinSize)

(***************************************************************************)
(* DrawingStateMachine: the pointer handlers of the overlay canvas, which  *)
(* is rendered only while a document is loaded.                            *)
(***************************************************************************)
RectangleMode == variant \in {"state", "ref"}
CanvasMounted == pdfDoc # NoFile

handleMouseDown(e) ==
  /\ RectangleMode /\ CanvasMounted
  /\ LET pos == getCanvasCoordinates(e)
     IN  IF pos.null
         THEN UNCHANGED << gestureVars, pressPage >>
         ELSE /\ isDrawing' = TRUE
              /\ startPos' = pos
              /\ currentRect' = Rect(pos.x, pos.y, pos.x, pos.y)
              /\ pressPage' = currentPage
  /\ raised' = FALSE
  /\ UNCHANGED << viewerVars, sideVars, variant, docVars, currentPage, rectangles, jumpToPage, loading, now >>

\* Fault model for handleMouseMove: the gesture dragged along, its start
\* position moved to the pointer with the current one.
handleMouseMoveMovesStart(e) ==
  /\ RectangleMode /\ CanvasMounted
  /\ LET pos == getCanvasCoordinates(e)
     IN  IF ~isDrawing \/ startPos.null \/ pos.null
         THEN UNCHANGED << startPos, currentRect >>
         ELSE /\ startPos' = pos
              /\ currentRect' = Rect(startPos.x, startPos.y, pos.x, pos.y)
  /\ raised' = FALSE
  /\ UNCHANGED << viewerVars, sideVars, variant, docVars, currentPage, rectangles, isDrawing,
                  jumpToPage, loading, now, pressPage >>

handleMouseMove(e) ==
  /\ RectangleMode /\ CanvasMounted
  /\ LET pos == getCanvasCoordinates(e)
     IN  IF ~isDrawing \/ startPos.null \/ pos.null
         THEN UNCHANGED currentRect
         ELSE currentRect' = Rect(startPos.x, startPos.y, pos.x, pos.y)
  /\ raised' = FALSE
  /\ UNCHANGED << viewerVars, sideVars, variant, docVars, currentPage, rectangles, isDrawing, startPos,
                  jumpToPage, loading, now, pressPage >>

handleMouseUp(e) ==
  /\ RectangleMode /\ CanvasMounted
  /\ LET pos == getCanvasCoordinates(e)
     IN  IF ~isDrawing \/ startPos.null \/ pos.null \/ currentRect.null
         THEN UNCHANGED << gestureVars, rectangles, now >>
         ELSE LET coords == getTopLeftCoordinates(currentRect.x1, currentRect.y1,
                                                  currentRect.x2, currentRect.y2)
              IN  /\ IF MeaningfulSize(coords)
                     THEN \E t \in now .. MaxClock :
                            /\ now' = t
                            /\ rectangles' = Append(rectangles, NewRect(coords, currentPage, t))
                     ELSE UNCHANGED << rectangles, now >>
                  /\ isDrawing' = FALSE
                  /\ startPos' = NullPos
                  /\ currentRect' = NullRect
  /\ raised' = FALSE
  /\ UNCHANGED << viewerVars, sideVars, variant, docVars, currentPage, jumpToPage, loading, pressPage >>

\* Fault model for onMouseLeave: the rectangle cleared, as goToPage clears it,
\* and the drawing flag left as it is.
onMouseLeaveKeepsDrawing ==
  /\ RectangleMode /\ CanvasMounted
  /\ currentRect' = NullRect
  /\ raised' = FALSE
  /\ UNCHANGED << viewerVars, sideVars, variant, docVars, currentPage, rectangles, isDrawing,
                  startPos, jumpToPage, loading, now, pressPage >>

onMouseLeave ==
  /\ RectangleMode /\ CanvasMounted
  /\ isDrawing' = FALSE
  /\ currentRect' = NullRect
  /\ raised' = FALSE
  /\ UNCHANGED << viewerVars, sideVars, variant, docVars, currentPage, rectangles, startPos,
                  jumpToPage, loading, now, pressPage >>

(***************************************************************************)
(* Point mode: handleCanvasClick commits a signature point at once.        *)
(***************************************************************************)
\* Fault model for the signature point: tagged with the first page instead
\* of the current one.
NewPointOnFirstPage(pos, page, id) ==
  [ x |-> MathRound(pos.x), y |-> MathRound(pos.y),
    xPoints |-> pixelsToPoints(pos.x), yPoints |-> pixelsToPoints(pos.y),
    pageNum |-> 1, id |-> id ]

\* the signature point handleCanvasClick commits at pos
NewPoint(pos, page, id) ==
  [ x |-> MathRound(pos.x), y |-> MathRound(pos.y),
    xPoints |-> pixelsToPoints(pos.x), yPoints |-> pixelsToPoints(pos.y),
    pageNum |-> page, id |-> id ]

handleCanvasClick(e) ==
  /\ variant = "point" /\ CanvasMounted
  /\ LET pos == getCanvasCoordinates(e)
     IN  IF pos.null
         THEN UNCHANGED << rectangles, now >>
         ELSE \E t \in now .. MaxClock :
                /\ now' = t
                /\ rectangles' = Append(rectangles, NewPoint(pos, currentPage, t))
  /\ raised' = FALSE
  /\ UNCHANGED << viewerVars, sideVars, variant, docVars, currentPage, gestureVars, jumpToPage, loading, pressPage >>

\* Fault model for removal by id: the last entry moved into the place of the
\* first entry that has the id, and the store shortened by one.
WithoutIdSwapRemove(seq, id) ==
  LET hit == {i \in 1 .. Len(seq) : seq[i].id = id}
  IN  IF hit = {} THEN seq
      ELSE LET i == CHOOSE k \in hit : \A m \in hit : k <= m
           IN  [k \in 1 .. Len(seq) - 1 |-> IF k = i THEN seq[Len(seq)] ELSE seq[k]]

(***************************************************************************)
(* RegionStore.                                                            *)
(***************************************************************************)
\* prev.filter(rect => rect.id !== id)
WithoutId(seq, id) == SelectSeq(seq, LAMBDA rect : rect.id # id)

\* Fault model for clear-page: the filter with its test inverted, keeping the
\* current page's entries and dropping all the others.
WithoutPageInverted(seq, page) ==
  SelectSeq(seq, LAMBDA rect : rect.pageNum = page)

\* prev.filter(rect => rect.pageNum !== currentPage)
WithoutPage(seq, page) == SelectSeq(seq, LAMBDA rect : rect.pageNum # page)

\* the delete button of a rectangle listed for the current page
handleDeleteRect(id) ==
  /\ RectangleMode /\ CanvasMounted
  /\ \E i \in 1 .. Len(rectangles) :
       rectangles[i].pageNum = currentPage /\ rectangles[i].id = id
  /\ rectangles' = WithoutId(rectangles, id)
  /\ raised' = FALSE
  /\ UNCHANGED << viewerVars, sideVars, variant, docVars, currentPage, gestureVars, jumpToPage, loading, now, pressPage >>

handleClearPage ==
  /\ CanvasMounted
  /\ rectangles' = WithoutPage(rectangles, currentPage)
  /\ raised' = FALSE
  /\ UNCHANGED << viewerVars, sideVars, variant, docVars, currentPage, gestureVars, jumpToPage, loading, now, pressPage >>

\* Fault model for navigation: the upper bound of the range test off by one.
goToPageOffByOne(n) ==
  IF n >= 1 /\ n <= totalPages + 1
  THEN /\ currentPage' = n
       /\ currentRect' = IF variant = "state" THEN NullRect ELSE currentRect
       /\ raised' = (variant = "ref")
  ELSE /\ UNCHANGED << currentPage, currentRect >>
       /\ raised' = FALSE

(***************************************************************************)
(* PageNavigationController.                                               *)
(***************************************************************************)
\* goToPage(pageNum).  The ref-based variant calls setCurrentRect, which it
\* does not declare: the call throws a ReferenceError after setCurrentPage
\* has been queued, and the drawing ref is left as it was.
goToPage(n) ==
  IF n >= 1 /\ n <= totalPages
  THEN /\ currentPage' = n
       /\ currentRect' = IF variant = "state" THEN NullRect ELSE currentRect
       /\ raised' = (variant = "ref")
  ELSE /\ UNCHANGED << currentPage, currentRect >>
       /\ raised' = FALSE

navFrame ==
  UNCHANGED << viewerVars, sideVars, variant, docVars, rectangles, isDrawing, startPos, jumpToPage,
               loading, now, pressPage >>

\* the Prev button: disabled={currentPage === 1}
PrevButton ==
  /\ CanvasMounted
  /\ currentPage # 1
  /\ goToPage(currentPage - 1)
  /\ navFrame

\* the Next button: disabled={currentPage === totalPages}
NextButton ==
  /\ CanvasMounted
  /\ currentPage # totalPages
  /\ goToPage(currentPage + 1)
  /\ navFrame

Keys == {"ArrowRight", "n", "ArrowLeft", "p", "Escape"}

\* Fault model for the keyboard binding: the letter keys bound the other way
\* round, 'n' to the previous page and 'p' to the next one.
handleKeyPressLettersSwapped(key) ==
  /\ IF pdfDoc = NoFile
     THEN UNCHANGED << currentPage, currentRect >> /\ raised' = FALSE
     ELSE IF key \in {"ArrowRight", "p"} THEN goToPage(currentPage + 1)
     ELSE IF key \in {"ArrowLeft", "n"} THEN goToPage(currentPage - 1)
     ELSE UNCHANGED << currentPage, currentRect >> /\ raised' = FALSE
  /\ navFrame

\* the window's keydown listener
handleKeyPress(key) ==
  /\ IF pdfDoc = NoFile
     THEN UNCHANGED << currentPage, currentRect >> /\ raised' = FALSE
     ELSE IF key \in {"ArrowRight", "n"} THEN goToPage(currentPage + 1)
     ELSE IF key \in {"ArrowLeft", "p"} THEN goToPage(currentPage - 1)
     ELSE UNCHANGED << currentPage, currentRect >> /\ raised' = FALSE
  /\ navFrame

(***************************************************************************)
(* The page-jump input of the point variant: a string, read by parseInt    *)
(* in handlePageJump and coerced by ToNumber in the Go button's disabled   *)
(* attribute.  A string is a sequence of characters.                       *)
(***************************************************************************)
DigitChars == << "0", "1", "2", "3", "4", "5", "6", "7", "8", "9" >>
IsDigit(c) == \E i \in 1 .. 10 : DigitChars[i] = c
DigitVal(c) == (CHOOSE i \in 1 .. 10 : DigitChars[i] = c) - 1

RECURSIVE DigitPrefix(_)
DigitPrefix(s) ==
  IF s = << >> \/ ~IsDigit(Head(s)) THEN << >>
  ELSE << Head(s) >> \o DigitPrefix(Tail(s))

RECURSIVE NatOf(_)
NatOf(ds) ==
  IF ds = << >> THEN 0
  ELSE 10 * NatOf(SubSeq(ds, 1, Len(ds) - 1)) + DigitVal(ds[Len(ds)])

RECURSIVE Pow10(_)
Pow10(n) == IF n = 0 THEN 1 ELSE 10 * Pow10(n - 1)

Drop(s, n) == SubSeq(s, n + 1, Len(s))
StartsWith(s, c) == s # << >> /\ Head(s) = c

\* parseInt(string): an optional sign and the longest prefix of decimal
\* digits; NaN when there is none.  What follows the digits is ignored.
parseInt(s) ==
  LET neg  == StartsWith(s, "-")
      body == IF neg THEN Tail(s) ELSE s
      ds   == DigitPrefix(body)
  IN  IF ds = << >> THEN NaN
      ELSE Fin(IF neg THEN 0 - NatOf(ds) ELSE NatOf(ds))

\* ToNumber(string) in tenths, for a decimal literal with at most one
\* fractional digit and a non-negative exponent; NaN when it is no literal.
ToNumberTenths(s) ==
  LET neg  == StartsWith(s, "-")
      body == IF neg THEN Tail(s) ELSE s
      ip   == DigitPrefix(body)
      r1   == Drop(body, Len(ip))
      dot  == StartsWith(r1, ".")
      fp   == IF dot THEN DigitPrefix(Tail(r1)) ELSE << >>
      r2   == IF dot THEN Drop(r1, 1 + Len(fp)) ELSE r1
      exp  == StartsWith(r2, "e")
      ex   == IF exp THEN DigitPrefix(Tail(r2)) ELSE << >>
      r3   == IF exp THEN Drop(r2, 1 + Len(ex)) ELSE r2
      mant == 10 * NatOf(ip) + (IF fp = << >> THEN 0 ELSE DigitVal(fp[1]))
      val  == mant * Pow10(NatOf(ex))
  IN  IF s = << >> THEN Fin(0)
      ELSE IF r3 # << >> \/ (ip = << >> /\ fp = << >>) \/ (exp /\ ex = << >>) THEN NaN
      ELSE Fin(IF neg THEN 0 - val ELSE val)

\* The values the number input can hold.
JumpInputs ==
  { << >>, << "0" >>, << "1" >>, << "2" >>, << "9" >>, << "-", "1" >>,
    << "2", ".", "5" >>, << "1", "e", "1" >> }

\* onChange of the page-jump input
setJumpToPage(s) ==
  /\ variant = "point" /\ CanvasMounted
  /\ jumpToPage' = s
  /\ raised' = FALSE
  /\ UNCHANGED << viewerVars, sideVars, variant, docVars, currentPage, rectangles, gestureVars,
                  loading, now, pressPage >>

\* handlePageJump
handlePageJump ==
  /\ LET parsed == parseInt(jumpToPage)
     IN  IF isFinite(parsed) /\ parsed.v >= 1 /\ parsed.v <= totalPages
         THEN goToPage(parsed.v) /\ jumpToPage' = << >>
         ELSE UNCHANGED << currentPage, currentRect, jumpToPage >> /\ raised' = FALSE
  /\ UNCHANGED << viewerVars, sideVars, variant, docVars, rectangles, isDrawing, startPos,
                  loading, now, pressPage >>

\* disabled={!jumpToPage || jumpToPage < 1 || jumpToPage > totalPages}
GoDisabled ==
  LET v == ToNumberTenths(jumpToPage)
  IN  \/ jumpToPage = << >>
      \/ isFinite(v) /\ v.v < 10
      \/ isFinite(v) /\ v.v > 10 * totalPages

\* the Go button
PageJumpGo ==
  /\ variant = "point" /\ CanvasMounted
  /\ ~GoDisabled
  /\ handlePageJump

\* Enter in the page-jump input (handlePageJumpKeyPress)
PageJumpEnter ==
  /\ variant = "point" /\ CanvasMounted
  /\ handlePageJump

(***************************************************************************)
(* Document load.  handleFileUpload runs up to its first await when the    *)
(* file input changes, and resumes once when the load has succeeded or     *)
(* failed (a rejected read or decode, or, in the variants of SETUP.md, the *)
(* 30 s timeout winning Promise.race or an empty document).                *)
(***************************************************************************)
FileKinds == {"pdf", "other", "large"}

\* the point variant renders the file input only in the empty state
UploadOffered == variant = "point" => pdfDoc = NoFile

\* the validations of the variants of SETUP.md: file type and file size
Rejected(kind) == variant # "state" /\ kind # "pdf"

handleFileUpload(f, kind) ==
  /\ UploadOffered
  /\ f \notin loading
  /\ IF Rejected(kind)
     THEN UNCHANGED << pdfFile, pdfFileName, loading >>
     ELSE /\ pdfFile' = f
          /\ pdfFileName' = IF variant = "state" THEN pdfFileName ELSE f
          /\ loading' = loading \cup {f}
  /\ raised' = FALSE
  /\ UNCHANGED << viewerVars, sideVars, variant, pdfDoc, currentPage, totalPages, rectangles, gestureVars,
                  jumpToPage, now, pressPage >>

\* the catch block of the variants of SETUP.md
ResetOnError ==
  /\ pdfFile' = NoFile
  /\ pdfFileName' = NoFile
  /\ pdfDoc' = NoFile
  /\ totalPages' = 0
  /\ currentPage' = 1
  /\ rectangles' = << >>
  /\ UNCHANGED gestureVars

\* the load of f rejects: in the state-based variant nothing handles it
LoadFailed(f) ==
  /\ f \in loading
  /\ loading' = loading \ {f}
  /\ IF variant = "state"
     THEN /\ UNCHANGED << docVars, currentPage, rectangles, gestureVars >>
          /\ raised' = TRUE
     ELSE /\ ResetOnError
          /\ raised' = FALSE
  /\ UNCHANGED << viewerVars, sideVars, variant, jumpToPage, now, pressPage >>

\* the load of f resolves with a document of numPages pages
LoadSucceeded(f, numPages) ==
  /\ f \in loading
  /\ loading' = loading \ {f}
  /\ IF variant # "state" /\ numPages = 0
     THEN ResetOnError
     ELSE /\ pdfDoc' = f
          /\ totalPages' = numPages
          /\ currentPage' = 1
          /\ rectangles' = << >>
          /\ UNCHANGED << pdfFile, pdfFileName >>
          /\ IF variant = "ref"
             THEN isDrawing' = FALSE /\ startPos' = NullPos /\ currentRect' = NullRect
             ELSE UNCHANGED gestureVars
  /\ raised' = FALSE
  /\ UNCHANGED << viewerVars, sideVars, variant, jumpToPage, now, pressPage >>

\* the 30 s timer of the variants of SETUP.md fires while loadingTask.promise
\* is pending: Promise.race rejects, the catch block resets the session, and
\* the loading task goes on decoding with nobody awaiting it
LoadTimedOut(f) ==
  /\ variant # "state"
  /\ f \in loading
  /\ loading' = loading \ {f}
  /\ timedOut' = timedOut \cup {f}
  /\ ResetOnError
  /\ raised' = FALSE
  /\ UNCHANGED << viewerVars, fieldMappings, conversion, variant, jumpToPage, now, pressPage >>

\* a loading task that lost the race settles: the race has settled already
\* and nothing reads the result
LateCompletion(f) ==
  /\ f \in timedOut
  /\ timedOut' = timedOut \ {f}
  /\ UNCHANGED << viewerVars, fieldMappings, conversion, variant, docVars, currentPage, rectangles,
                  gestureVars, jumpToPage, loading, now, raised, pressPage >>

\* the Home button, rendered while a document is loaded.  The ref-based
\* variant then calls setCurrentRect, setIsDrawing and setStartPos, which it
\* does not declare: the first call throws after the six resets are queued.
handleHome ==
  /\ variant # "state"
  /\ pdfDoc # NoFile
  /\ pdfFile' = NoFile
  /\ pdfFileName' = NoFile
  /\ pdfDoc' = NoFile
  /\ currentPage' = 1
  /\ totalPages' = 0
  /\ rectangles' = << >>
  /\ raised' = (variant = "ref")
  /\ UNCHANGED << viewerVars, sideVars, variant, gestureVars, jumpToPage, loading, now, pressPage >>

(***************************************************************************)
(* FieldMappingModel.  FieldList reads fieldMappings[fieldName] as the     *)
(* tuple [y1, x1, y2, x2, pageNumber]; the assignment that writes it is    *)
(* described by the specification of the engine.                           *)
(***************************************************************************)
\* the fields prop: the known field names
fields == {"Annual Income", "Signature"}

\* the names a caller may pass: the known ones and one that is not
FieldNames == fields \cup {"Nickname"}

\* a + b
Plus(a, b) ==
  IF a.k = "nan" \/ b.k = "nan" THEN NaN
  ELSE IF a.k = "fin" /\ b.k = "fin" THEN Fin(a.v + b.v)
  ELSE IF a.k = "fin" THEN b
  ELSE IF b.k = "fin" \/ a.k = b.k THEN a
  ELSE NaN

\* the mapping tuple of a region: its top-left and bottom-right corners in
\* the normalized space, and its page
MappingOf(region) ==
  << pixelsToPoints(Whole(region.y)),
     pixelsToPoints(Whole(region.x)),
     pixelsToPoints(Whole(Plus(region.y, region.height))),
     pixelsToPoints(Whole(Plus(region.x, region.width))),
     region.pageNum >>

\* Fault model for assignFieldToRegion: a field that has a mapping keeps it.
assignFieldToRegionKeepsFirst(fieldName, region) ==
  /\ RectangleMode /\ CanvasMounted
  /\ IF fieldName \notin fields
     THEN /\ raised' = TRUE
          /\ UNCHANGED fieldMappings
     ELSE /\ raised' = FALSE
          /\ fieldMappings' =
               [f \in DOMAIN fieldMappings \cup {fieldName} |->
                  IF f \in DOMAIN fieldMappings THEN fieldMappings[f] ELSE MappingOf(region)]
  /\ UNCHANGED << viewerVars, conversion, timedOut, variant, docVars, currentPage, rectangles, gestureVars,
                  jumpToPage, loading, now, pressPage >>

\* Fault model for assignFieldToRegion: the field name is not checked.
assignFieldToRegionUnchecked(fieldName, region) ==
  /\ RectangleMode /\ CanvasMounted
  /\ raised' = FALSE
  /\ fieldMappings' =
       [f \in DOMAIN fieldMappings \cup {fieldName} |->
          IF f = fieldName THEN MappingOf(region) ELSE fieldMappings[f]]
  /\ UNCHANGED << viewerVars, conversion, timedOut, variant, docVars, currentPage, rectangles, gestureVars,
                  jumpToPage, loading, now, pressPage >>

\* assignFieldToRegion(fieldName, region): overwrites the mapping of
\* fieldName; InvalidFieldError for a name outside the known set
assignFieldToRegion(fieldName, region) ==
  /\ RectangleMode /\ CanvasMounted
  /\ IF fieldName \notin fields
     THEN /\ raised' = TRUE
          /\ UNCHANGED fieldMappings
     ELSE /\ raised' = FALSE
          /\ fieldMappings' =
               [f \in DOMAIN fieldMappings \cup {fieldName} |->
                  IF f = fieldName THEN MappingOf(region) ELSE fieldMappings[f]]
  /\ UNCHANGED << viewerVars, conversion, timedOut, variant, docVars, currentPage, rectangles, gestureVars,
                  jumpToPage, loading, now, pressPage >>

\* Fault model for getFieldStatus: the page read from the first element of
\* the tuple, const [pageNum] = fieldMappings[fieldName].
getFieldStatusFirstElement(fieldName) ==
  IF fieldName \in DOMAIN fieldMappings
  THEN IF fieldMappings[fieldName][1] = currentPage
       THEN "mapped-current"
       ELSE "mapped-other"
  ELSE "unmapped"

\* fieldMappings[fieldName] is truthy
HasMapping(fieldName) == fieldName \in DOMAIN fieldMappings

\* getFieldStatus(fieldName)
getFieldStatus(fieldName) ==
  IF HasMapping(fieldName)
  THEN IF fieldMappings[fieldName][5] = currentPage
       THEN "mapped-current"
       ELSE "mapped-other"
  ELSE "unmapped"

(***************************************************************************)
(* The overlay canvas.  The draw effect of the App clears it and draws the *)
(* rectangle in progress and the rectangles of the current page; it runs   *)
(* when one of its dependencies has changed.  onPageRender assigns         *)
(* canvas.width and canvas.height, which clears the canvas.                *)
(***************************************************************************)
\* [currentRect, rectangles, currentPage, isDrawing]
Deps == << currentRect, rectangles, currentPage, isDrawing >>

\* what the draw effect paints
Content ==
  [ preview |-> IF ~currentRect.null /\ isDrawing THEN currentRect ELSE NullRect,
    regions |-> SelectSeq(rectangles, LAMBDA rect : rect.pageNum = currentPage) ]

\* a canvas with nothing painted on it
Cleared == [ preview |-> NullRect, regions |-> << >> ]

\* the overlay as the draw effect leaves it
Drawn == [ deps |-> Deps, shown |-> Content ]

\* the draw effect runs: a dependency differs from the last run's
DrawOverlay ==
  /\ CanvasMounted
  /\ overlay.deps # Deps
  /\ overlay' = Drawn
  /\ UNCHANGED << vars, viewerKind, pageNum, jobs, renderTaskRef, errorShown, listeners >>

(***************************************************************************)
(* The keyboard effect of the App: each run registers a new handleKeyPress *)
(* on window, and its cleanup removes the one that run registered.         *)
(***************************************************************************)
\* handleKeyPress as one run of the effect creates it: a closure over the
\* pdfDoc, currentPage and totalPages of that render
Closure ==
  [pdfDoc |-> pdfDoc, currentPage |-> currentPage, totalPages |-> totalPages]

\* Fault model for the cleanup: a removal that removes nothing.
removeNothing(hs, h) == hs

\* window.removeEventListener('keydown', handleKeyPress)
removeEventListener(hs, h) == hs \ {h}

\* window.addEventListener('keydown', handleKeyPress)
addEventListener(hs, h) == hs \cup {h}

\* the first run of the effect, when the App is mounted
Registered ==
  [mounted |-> TRUE, last |-> Closure, handlers |-> addEventListener({}, Closure)]

\* a commit has changed pdfDoc, currentPage or totalPages: the cleanup of the
\* previous run, then the effect again
KeyboardEffect ==
  /\ listeners.mounted
  /\ listeners.last # Closure
  /\ listeners' =
       [listeners EXCEPT
          !.last = Closure,
          !.handlers = addEventListener(removeEventListener(@, listeners.last), Closure)]
  /\ UNCHANGED << vars, viewerKind, pageNum, jobs, renderTaskRef, errorShown, overlay >>

\* the App is unmounted: the cleanup of the last run
Teardown ==
  /\ listeners.mounted
  /\ listeners' =
       [listeners EXCEPT
          !.mounted = FALSE,
          !.handlers = removeEventListener(@, listeners.last)]
  /\ UNCHANGED << vars, viewerKind, pageNum, jobs, renderTaskRef, errorShown, overlay >>

JobIds == 1 .. MaxJobs
NoJob == [page |-> 0, pc |-> "none"]

\* renderTaskRef.current.cancel(): rejects the render task's promise unless
\* the task has already settled
CancelCurrent(js) ==
  IF renderTaskRef # 0 /\ js[renderTaskRef].pc = "render"
  THEN [js EXCEPT ![renderTaskRef].pc = "cancelled"]
  ELSE js

\* One run of the effect for page n: the cleanup of the previous run, then
\* renderPage up to its first await.  Both cancel only the task
\* renderTaskRef.current holds.
RunEffect(js, n) ==
  LET c == CancelCurrent(js)
      j == CHOOSE i \in JobIds : c[i].pc = "none" /\ \A k \in JobIds : c[k].pc = "none" => i <= k
  IN  [c EXCEPT ![j] = [page |-> n, pc |-> "getPage"]]

CanStart == \E i \in JobIds : jobs[i].pc = "none"

\* A settled run is forgotten unless renderTaskRef.current refers to it.
Settle(js, j, ref) ==
  [js EXCEPT ![j] = IF ref = j THEN [page |-> js[j].page, pc |-> "done"] ELSE NoJob]

InitViewer ==
  /\ viewerKind \in {"guarded", "plain"}
  /\ pageNum = 1
  /\ jobs = [i \in JobIds |-> IF i = 1 THEN [page |-> 1, pc |-> "getPage"] ELSE NoJob]
  /\ renderTaskRef = 0
  /\ errorShown = FALSE
  /\ overlay = Drawn
  /\ listeners = Registered

\* the parent passes another pageNum
ChangePage(n) ==
  /\ n # pageNum
  /\ CanStart
  /\ pageNum' = n
  /\ jobs' = RunEffect(jobs, n)
  /\ UNCHANGED << vars, viewerKind, renderTaskRef, errorShown, overlay, listeners >>

\* the parent re-renders and passes a new onPageRender closure
ParentRerender ==
  /\ CanStart
  /\ jobs' = RunEffect(jobs, pageNum)
  /\ UNCHANGED << vars, viewerKind, pageNum, renderTaskRef, errorShown, overlay, listeners >>

\* getPage resolves: the canvas is resized and page.render is started
GetPageResolved(j) ==
  /\ jobs[j].pc = "getPage"
  /\ renderTaskRef' = j
  /\ jobs' = [i \in JobIds |->
               IF i = j THEN [page |-> jobs[j].page, pc |-> "render"]
               ELSE IF i = renderTaskRef /\ jobs[i].pc = "done" THEN NoJob
               ELSE jobs[i]]
  /\ UNCHANGED << vars, viewerKind, pageNum, errorShown, overlay, listeners >>

\* the render task's promise resolves: onPageRender(width, height, scale) is
\* called, the parent stores a new pageDimensions object, resizes the
\* overlay canvas and re-renders, and the effect runs again for the new
\* onPageRender
RenderFinished(j) ==
  /\ jobs[j].pc = "render"
  /\ LET settled == Settle(jobs, j, renderTaskRef)
     IN  /\ \E i \in JobIds : settled[i].pc = "none"
         /\ jobs' = RunEffect(settled, pageNum)
  /\ overlay' = [overlay EXCEPT !.shown = Cleared]
  /\ UNCHANGED << vars, viewerKind, pageNum, renderTaskRef, errorShown, listeners >>

\* getPage or the render task rejects, or the task was cancelled: the
\* guarded viewer's catch block clears the canvas and draws the error
RenderRejected(j) ==
  /\ jobs[j].pc \in {"getPage", "render", "cancelled"}
  /\ jobs' = Settle(jobs, j, renderTaskRef)
  /\ errorShown' = (errorShown \/ viewerKind = "guarded")
  /\ UNCHANGED << vars, viewerKind, pageNum, renderTaskRef, overlay, listeners >>

ViewerNext ==
  \/ \E n \in 1 .. MaxPages : ChangePage(n)
  \/ ParentRerender
  \/ \E j \in JobIds : GetPageResolved(j)
  \/ \E j \in JobIds : RenderFinished(j)
  \/ \E j \in JobIds : RenderRejected(j)

(***************************************************************************)
(* The session.                                                            *)
(***************************************************************************)
\* the events a store of fewer than n entries still takes: the store of the
\* model is bounded, the program's is not
Room(events, n) == IF Len(rectangles) < n THEN events ELSE {}

AppNext ==
  \/ \E f \in Files, kind \in FileKinds : handleFileUpload(f, kind)
  \/ \E f \in Files : LoadFailed(f)
  \/ \E f \in Files, n \in 0 .. MaxPages : LoadSucceeded(f, n)
  \/ handleHome
  \/ PrevButton
  \/ NextButton
  \/ \E key \in Keys : handleKeyPress(key)
  \/ \E s \in JumpInputs : setJumpToPage(s)
  \/ PageJumpGo
  \/ PageJumpEnter
  \/ \E e \in PointerEvents : handleMouseDown(e)
  \/ \E e \in PointerEvents : handleMouseMove(e)
  \/ \E e \in Room(PointerEvents, MaxRects) : handleMouseUp(e)
  \/ onMouseLeave
  \/ \E e \in Room(PointerEvents, MaxRects) : handleCanvasClick(e)
  \/ \E id \in 1 .. MaxClock : handleDeleteRect(id)
  \/ handleClearPage

allVars == << vars, viewerVars >>

\* the viewer before a document is loaded
NotMounted ==
  /\ viewerKind = "guarded"
  /\ pageNum = 0
  /\ jobs = [i \in JobIds |-> NoJob]
  /\ renderTaskRef = 0
  /\ errorShown = FALSE
  /\ overlay = Drawn
  /\ listeners = Registered

\* The App, its viewer left aside.
Next == AppNext

\* the App after construction, no document loaded and no viewer mounted
Init == InitApp /\ NotMounted

Spec == Init /\ [][Next]_allVars

\* The viewer of a loaded document, the App's own state left aside.
InitMounted == InitApp /\ InitViewer

SpecViewer == InitMounted /\ [][ViewerNext]_allVars

(***************************************************************************)
(* A session with a document of MaxPages pages loaded, a 1600 x 1600       *)
(* canvas displayed at its own size, and the field list.                   *)
(***************************************************************************)
ScenarioEvents ==
  { Event(100, 100, 1600, 1600, 1600, 1600),
    Event(300, 250, 1600, 1600, 1600, 1600),
    Event(1400, 1400, 1600, 1600, 1600, 1600) }

\* the state after handleFileUpload and the load of a document of MaxPages
\* pages
Loaded ==
  /\ variant \in Variants
  /\ pdfFile = 1
  /\ pdfFileName = (IF variant = "state" THEN NoFile ELSE 1)
  /\ pdfDoc = 1
  /\ currentPage = 1 /\ totalPages = MaxPages
  /\ rectangles = << >>
  /\ isDrawing = FALSE /\ startPos = NullPos /\ currentRect = NullRect
  /\ jumpToPage = << >> /\ loading = {} /\ now = 1
  /\ raised = FALSE /\ pressPage = 0
  /\ fieldMappings = NoMappings
  /\ conversion = NoConversion
  /\ timedOut = {}

InitLoaded == Loaded /\ NotMounted

FieldsNext ==
  \/ \E e \in ScenarioEvents : handleMouseDown(e)
  \/ \E e \in ScenarioEvents : handleMouseMove(e)
  \/ \E e \in Room(ScenarioEvents, MaxRects) : handleMouseUp(e)
  \/ \E e \in Room(ScenarioEvents, MaxRects) : handleCanvasClick(e)
  \/ PrevButton
  \/ NextButton
  \/ \E fieldName \in FieldNames, i \in 1 .. Len(rectangles) :
       assignFieldToRegion(fieldName, rectangles[i])

SpecFields == InitLoaded /\ [][FieldsNext]_allVars

(***************************************************************************)
(* The same session with a store of up to MaxStored entries, drawn on a    *)
(* 24 x 24 canvas, with removal, page clear and Home.                      *)
(***************************************************************************)
StoreEvents ==
  { Event(0, 0, 24, 24, 24, 24),
    Event(12, 12, 24, 24, 24, 24) }

StoreNext ==
  \/ \E e \in StoreEvents : handleMouseDown(e)
  \/ \E e \in StoreEvents : handleMouseMove(e)
  \/ \E e \in Room(StoreEvents, MaxStored) : handleMouseUp(e)
  \/ \E e \in Room(StoreEvents, MaxStored) : handleCanvasClick(e)
  \/ onMouseLeave
  \/ \E id \in 1 .. MaxClock : handleDeleteRect(id)
  \/ handleClearPage
  \/ PrevButton
  \/ NextButton
  \/ handleHome

InitStore == Loaded /\ NotMounted

SpecStore == InitStore /\ [][StoreNext]_allVars

(***************************************************************************)
(* The unit conversions on their own: an input in pixels is converted to   *)
(* points and back.                                                        *)
(***************************************************************************)
\* the inputs: every position from -2 to MaxPixels pixels in steps of half
\* a pixel, and the non-finite numbers
ConversionInputs ==
  {Fin(h) : h \in -4 .. 2 * MaxPixels} \cup {NaN, PosInf, NegInf}

InitConversion ==
  \E x \in ConversionInputs :
    conversion = [pc |-> "pixels", pixels |-> x, points |-> 0, back |-> 0]

ConvertToPoints ==
  /\ conversion.pc = "pixels"
  /\ conversion' = [conversion EXCEPT !.pc = "points",
                                      !.points = pixelsToPoints(conversion.pixels)]
  /\ UNCHANGED << viewerVars, variant, docVars, currentPage, rectangles, gestureVars,
                  jumpToPage, loading, now, raised, pressPage, fieldMappings, timedOut >>

ConvertToPixels ==
  /\ conversion.pc = "points"
  /\ conversion' = [conversion EXCEPT !.pc = "back",
                                      !.back = pointsToPixels(conversion.points)]
  /\ UNCHANGED << viewerVars, variant, docVars, currentPage, rectangles, gestureVars,
                  jumpToPage, loading, now, raised, pressPage, fieldMappings, timedOut >>

ConversionNext == ConvertToPoints \/ ConvertToPixels

\* the session state of InitApp, with a conversion to carry out
InitConvert ==
  /\ variant \in {"ref", "point"}
  /\ pdfFile = NoFile /\ pdfFileName = NoFile /\ pdfDoc = NoFile
  /\ currentPage = 1 /\ totalPages = 0
  /\ rectangles = << >>
  /\ isDrawing = FALSE /\ startPos = NullPos /\ currentRect = NullRect
  /\ jumpToPage = << >> /\ loading = {} /\ now = 1
  /\ raised = FALSE /\ pressPage = 0
  /\ fieldMappings = NoMappings
  /\ timedOut = {}
  /\ InitConversion
  /\ NotMounted

SpecConvert == InitConvert /\ [][ConversionNext]_allVars

(***************************************************************************)
(* The state-based App with its viewer and its overlay: a document of      *)
(* MaxPages pages loaded, rectangles drawn on a 24 x 24 canvas, page       *)
(* changes, the renders they start and the draw effect.                    *)
(***************************************************************************)
\* React runs the effects of a commit before it handles the next event: the
\* draw effect has seen the state and PDFViewer has seen the page number
EffectsRan == overlay.deps = Deps /\ pageNum = currentPage

OverlayNext ==
  \/ EffectsRan /\ \E e \in StoreEvents : handleMouseDown(e)
  \/ EffectsRan /\ \E e \in StoreEvents : handleMouseMove(e)
  \/ EffectsRan /\ \E e \in Room(StoreEvents, MaxShown) : handleMouseUp(e)
  \/ EffectsRan /\ PrevButton
  \/ EffectsRan /\ NextButton
  \/ ChangePage(currentPage)
  \/ \E j \in JobIds : GetPageResolved(j)
  \/ \E j \in JobIds : RenderFinished(j)
  \/ \E j \in JobIds : RenderRejected(j)
  \/ DrawOverlay

InitOverlay == Loaded /\ variant = "state" /\ InitViewer

SpecOverlay == InitOverlay /\ [][OverlayNext]_allVars

(***************************************************************************)
(* The App and its keyboard effect: loads, Home, the page buttons and the  *)
(* keys, the effect after each commit, and the unmounting of the App.      *)
(***************************************************************************)
\* the App is mounted and the keyboard effect of the last commit has run:
\* the next event is taken then
KeysReady == listeners.mounted /\ listeners.last = Closure

KeysNext ==
  \/ KeysReady /\ \E f \in Files, kind \in FileKinds : handleFileUpload(f, kind)
  \/ KeysReady /\ \E f \in Files : LoadFailed(f)
  \/ KeysReady /\ \E f \in Files, n \in 0 .. MaxPages : LoadSucceeded(f, n)
  \/ KeysReady /\ handleHome
  \/ KeysReady /\ PrevButton
  \/ KeysReady /\ NextButton
  \/ KeysReady /\ \E key \in Keys : handleKeyPress(key)
  \/ KeyboardEffect
  \/ Teardown

InitKeys == InitApp /\ NotMounted

SpecKeys == InitKeys /\ [][KeysNext]_allVars

(***************************************************************************)
(* The document loads on their own: up to MaxLoads files chosen one after   *)
(* the other, their loads overlapping, each ended by its decoding or, in    *)
(* the variants of SETUP.md, by its timer, which fires if the decoding has  *)
(* not ended the load before.                                              *)
(***************************************************************************)
LoadFiles == 1 .. MaxLoads

LoadNext ==
  \/ \E f \in LoadFiles \ timedOut, kind \in FileKinds : handleFileUpload(f, kind)
  \/ \E f \in LoadFiles : LoadFailed(f)
  \/ \E f \in LoadFiles, n \in 0 .. MaxPages : LoadSucceeded(f, n)
  \/ \E f \in LoadFiles : LoadTimedOut(f)
  \/ \E f \in LoadFiles : LateCompletion(f)
  \/ PrevButton
  \/ NextButton
  \/ handleHome

InitLoad == InitApp /\ NotMounted

SpecLoad ==
  /\ InitLoad
  /\ [][LoadNext]_allVars
  /\ \A f \in LoadFiles : WF_allVars(LoadTimedOut(f))

(***************************************************************************)
(* Vocabulary of the claims.                                               *)
(***************************************************************************)
Dragging == isDrawing
Idle == ~isDrawing /\ startPos.null /\ currentRect.null

\* a navigation step: the buttons, the keyboard binding, the page jump
Navigation ==
  \/ PrevButton
  \/ NextButton
  \/ \E key \in Keys : handleKeyPress(key)
  \/ PageJumpGo
  \/ PageJumpEnter

\* |a - b| > MinSize pixels, for finite a and b in half pixels
FartherThanMinSize(a, b) ==
  /\ isFinite(a) /\ isFinite(b)
  /\ (a.v - b.v > 2 * MinSize \/ b.v - a.v > 2 * MinSize)

\* C1: in rectangle mode, a pointer-up at p3 that ends a gesture pressed at
\* p1 on the same page, with p3 farther than 5 pixels from p1 on both axes,
\* appends exactly one region, on the current page, with x and y the minima
\* and width and height the distances of p1 and p3, rounded: whatever the
\* pointer-moves in between were.
C1_ReleaseFixesRegion ==
  [][ \A e \in PointerEvents :
        LET p1 == startPos
            p3 == getCanvasCoordinates(e)
            n  == Len(rectangles)
        IN  ( /\ handleMouseUp(e)
              /\ Dragging /\ ~p1.null /\ ~p3.null
              /\ pressPage = currentPage
              /\ FartherThanMinSize(p3.x, p1.x)
              /\ FartherThanMinSize(p3.y, p1.y) )
            => /\ Len(rectangles') = n + 1
               /\ SubSeq(rectangles', 1, n) = rectangles
               /\ rectangles'[n + 1].pageNum = currentPage
               /\ rectangles'[n + 1].x = MathRound(MathMin(p1.x, p3.x))
               /\ rectangles'[n + 1].y = MathRound(MathMin(p1.y, p3.y))
               /\ rectangles'[n + 1].width = MathRound(MathAbs(Minus(p3.x, p1.x)))
               /\ rectangles'[n + 1].height = MathRound(MathAbs(Minus(p3.y, p1.y)))
    ]_allVars

\* C2: a navigation that changes the page while a gesture is Dragging leaves
\* the machine Idle (not drawing, no start position, no current rectangle)
\* and commits no region.
C2_NavigationCancelsGesture ==
  [][ (Navigation /\ Dragging /\ currentPage' # currentPage)
      => (Idle' /\ rectangles' = rectangles) ]_allVars

\* C3: a pointer-up that ends a gesture whose final rectangle is at most 5
\* pixels wide or high (a click with no drag included) adds no region and
\* returns the machine to Idle.
C3_SmallGestureDiscarded ==
  [][ \A e \in PointerEvents :
        ( /\ handleMouseUp(e)
          /\ Dragging /\ ~currentRect.null
          /\ ~MeaningfulSize(getTopLeftCoordinates(currentRect.x1, currentRect.y1,
                                                   currentRect.x2, currentRect.y2)) )
        => (rectangles' = rectangles /\ Idle')
    ]_allVars

\* the value in the page-jump input is no page of the document: not a
\* number, below 1 or above totalPages
JumpOutOfRange ==
  LET v == ToNumberTenths(jumpToPage)
  IN  jumpToPage = << >> \/ ~isFinite(v) \/ v.v < 10 \/ v.v > 10 * totalPages

\* C4: a navigation to a page outside 1..totalPages (the keyboard's next on
\* the last page, its prev on page 1, a page jump whose input is out of
\* range or not a number) changes neither the current page, nor the store,
\* nor the gesture, and raises no error.
C4_OutOfRangeIsNoOp ==
  [][ ( \/ \E key \in {"ArrowRight", "n"} :
             handleKeyPress(key) /\ currentPage + 1 > totalPages
        \/ \E key \in {"ArrowLeft", "p"} :
             handleKeyPress(key) /\ currentPage - 1 < 1
        \/ (PageJumpEnter \/ PageJumpGo) /\ JumpOutOfRange )
      => ( /\ UNCHANGED << currentPage, rectangles, gestureVars >>
           /\ ~raised' ) ]_allVars

\* C5 as claimed: in every reachable state 1 <= currentPage <= totalPages.
C5_PageInRangeAlways ==
  1 <= currentPage /\ currentPage <= totalPages

\* C5 as amended: currentPage >= 1 always; it is at most totalPages while
\* the document has pages, and it is 1 while totalPages is 0 (before any
\* load, after a failed load, after Home).
C5_PageInRangeOfDocument ==
  /\ currentPage >= 1
  /\ totalPages >= 1 => currentPage <= totalPages
  /\ totalPages = 0 => currentPage = 1

\* C5's case: a document of two pages, navigated to its last page.
C5_Witness ==
  pdfDoc # NoFile /\ totalPages = 2 /\ currentPage = 2

\* C6: no two uncancelled render tasks are ever in flight on the canvas, and
\* onPageRender is only ever called for the page that is current.
C6_StaleRenderNeverLands ==
  /\ [](Cardinality({j \in JobIds : jobs[j].pc = "render"}) <= 1)
  /\ [][ \A j \in JobIds : RenderFinished(j) => jobs[j].page = pageNum ]_allVars

\* C7: every pointer-up received while Dragging leaves the machine Idle.
C7_PointerUpEndsGesture ==
  [][ \A e \in PointerEvents : (handleMouseUp(e) /\ Dragging) => Idle' ]_allVars

\* C8: ids are unique in the store and strictly increase in creation order
\* (the order of the store).
C8_IdsStrictlyIncrease ==
  \A i, j \in 1 .. Len(rectangles) :
    i < j => rectangles[i].id < rectangles[j].id

\* C9: after a load has failed (a rejected read or decode, the timeout, an
\* empty document) the session is empty: no document, no file, no file name,
\* totalPages = 0, currentPage = 1, an empty store and no active gesture.
C9_FailedLoadEmptiesSession ==
  [][ \A f \in Files :
        (LoadFailed(f) \/ (variant # "state" /\ LoadSucceeded(f, 0)))
        => ( /\ pdfDoc' = NoFile /\ pdfFile' = NoFile /\ pdfFileName' = NoFile
             /\ totalPages' = 0 /\ currentPage' = 1
             /\ rectangles' = << >>
             /\ Idle' )
    ]_allVars

\* C10: clear-page on page p removes exactly the regions (or points) of page
\* p: the others stay, unchanged and in the same relative order.
C10_ClearPageKeepsOtherPages ==
  [][ handleClearPage =>
        LET kept == {i \in 1 .. Len(rectangles) : rectangles[i].pageNum # currentPage}
        IN  /\ Len(rectangles') = Cardinality(kept)
            /\ \A i \in kept :
                 rectangles'[Cardinality({k \in kept : k <= i})] = rectangles[i]
    ]_allVars

\* C10's case: in the point variant, where nothing but clear-page removes a
\* single point, the point committed first (id 1, page 1) is still stored
\* after a later one (id 2, the clock now reads 2) is gone: clear-page ran on
\* the later point's page and left page 1 alone.
C10_Witness ==
  /\ variant = "point"
  /\ now = 2
  /\ Len(rectangles) = 1
  /\ rectangles[1].id = 1 /\ rectangles[1].pageNum = 1
  /\ currentPage = 2

\* C14: for every whole number of pixels px >= 0, converting px to points
\* and the result back to pixels gives a value within 1 of px.
C14_RoundTripWithinOne ==
  ( /\ conversion.pc = "back"
    /\ isFinite(conversion.pixels)
    /\ conversion.pixels.v >= 0
    /\ conversion.pixels.v % 2 = 0 )
  => LET px == conversion.pixels.v \div 2
     IN  conversion.back - px \in {-1, 0, 1}

\* C14's case: 2 pixels become 2 points (1.5 rounded up), and 2 points
\* come back as 3 pixels: the round trip is off by exactly one.
C14_Witness ==
  /\ conversion.pc = "back"
  /\ conversion.pixels = Fin(4)
  /\ conversion.points = 2
  /\ conversion.back = 3

\* C15: every value pixelsToPoints produces is a whole number >= 0, and it
\* is 0 for a negative or a non-finite input.
C15_PointsNonNegative ==
  conversion.pc \in {"points", "back"}
  => /\ conversion.points \in Nat
     /\ (~isFinite(conversion.pixels) \/ conversion.pixels.v < 0)
          => conversion.points = 0

\* C15's case: a negative input, one pixel left of the canvas, converted.
C15_Witness ==
  /\ conversion.pc = "points"
  /\ conversion.pixels = Fin(-2)
  /\ conversion.points = 0

\* every normalized value in the store is a whole number >= 0
StoredPointsNonNegative ==
  \A i \in 1 .. Len(rectangles) :
    /\ variant \in {"ref", "point"}
         => rectangles[i].xPoints \in Nat /\ rectangles[i].yPoints \in Nat
    /\ variant = "ref"
         => rectangles[i].widthPoints \in Nat /\ rectangles[i].heightPoints \in Nat

C12_LastAssignmentWins ==
  [][ \A fieldName \in fields, i \in 1 .. Len(rectangles) :
        assignFieldToRegion(fieldName, rectangles[i])
        => /\ DOMAIN fieldMappings' = DOMAIN fieldMappings \cup {fieldName}
           /\ fieldMappings'[fieldName] = MappingOf(rectangles[i])
           /\ \A other \in DOMAIN fieldMappings \ {fieldName} :
                fieldMappings'[other] = fieldMappings[other]
    ]_allVars

\* C12's case: two regions with different mappings are stored, and a field
\* holds the mapping of the second one, and only that one.
C12_Witness ==
  /\ RectangleMode
  /\ Len(rectangles) = 2
  /\ MappingOf(rectangles[1]) # MappingOf(rectangles[2])
  /\ rectangles[1].pageNum # rectangles[2].pageNum
  /\ DOMAIN fieldMappings = {"Signature"}
  /\ fieldMappings["Signature"] = MappingOf(rectangles[2])

\* the region of the scenario: {x: 100, y: 100, width: 200, height: 150} on
\* page 1
ScenarioRegion(r) ==
  /\ r.x = Fin(100) /\ r.y = Fin(100)
  /\ r.width = Fin(200) /\ r.height = Fin(150)
  /\ r.pageNum = 1

\* the pointer-up that ends the drag from (100,100) to (300,250) on page 1
\* commits the region of the scenario
ScenarioDragCommits ==
  LET e == Event(300, 250, 1600, 1600, 1600, 1600)
      n == Len(rectangles)
  IN  ( /\ handleMouseUp(e)
        /\ Dragging /\ currentPage = 1
        /\ startPos = Pos(Fin(200), Fin(200))
        /\ currentRect = Rect(Fin(200), Fin(200), Fin(600), Fin(500)) )
      => /\ Len(rectangles') = n + 1
         /\ ScenarioRegion(rectangles'[n + 1])
         /\ variant = "ref"
              => /\ rectangles'[n + 1].xPoints = 75
                 /\ rectangles'[n + 1].yPoints = 75
                 /\ rectangles'[n + 1].widthPoints = 150
                 /\ rectangles'[n + 1].heightPoints = 113

C16_NormalizedWithinScale ==
  /\ \A i \in 1 .. Len(rectangles) :
       /\ variant \in {"ref", "point"}
            => rectangles[i].xPoints \in 0 .. 1000 /\ rectangles[i].yPoints \in 0 .. 1000
       /\ variant = "ref"
            => /\ rectangles[i].xPoints + rectangles[i].widthPoints \in 0 .. 1000
               /\ rectangles[i].yPoints + rectangles[i].heightPoints \in 0 .. 1000
  /\ \A fieldName \in DOMAIN fieldMappings :
       \A k \in 1 .. 4 : fieldMappings[fieldName][k] \in 0 .. 1000

C19_UnknownFieldRejected ==
  [][ \A fieldName \in FieldNames \ fields, i \in 1 .. Len(rectangles) :
        assignFieldToRegion(fieldName, rectangles[i])
        => (raised' /\ UNCHANGED << fieldMappings, rectangles, currentPage >>)
    ]_allVars

\* C19's case: in the state-based variant, whose handlers never throw, an
\* error was raised with a region stored: the assignment was refused.
C19_Witness ==
  /\ variant = "state"
  /\ raised
  /\ Len(rectangles) >= 1
  /\ fieldMappings = NoMappings

\* C18: a render that was cancelled never takes the error path: when its
\* promise rejects, no error is drawn over the canvas.
C18_CancelIsNotFailure ==
  [][ \A j \in JobIds :
        (RenderRejected(j) /\ jobs[j].pc = "cancelled")
        => errorShown' = errorShown
    ]_allVars

\* the entries of old at the positions kept, in their order
Restriction(old, kept) ==
  [k \in 1 .. Cardinality(kept) |->
     old[CHOOSE i \in kept : Cardinality({m \in kept : m <= i}) = k]]

\* C20: the store changes only by one entry appended at its end, on the
\* current page, or by entries removed, the remaining ones unchanged and in
\* their order; and the entries are stored in commit order (ids never
\* decrease along the store), so that the listing of a page is too.
C20_StoreAppendOrRemove ==
  /\ [](\A i, j \in 1 .. Len(rectangles) :
          i < j => rectangles[i].id <= rectangles[j].id)
  /\ [][ rectangles' # rectangles
          => \/ /\ Len(rectangles') = Len(rectangles) + 1
                /\ SubSeq(rectangles', 1, Len(rectangles)) = rectangles
                /\ rectangles'[Len(rectangles') ].pageNum = currentPage
                /\ rectangles'[Len(rectangles') ].id = now'
             \/ \E kept \in SUBSET (1 .. Len(rectangles)) :
                  rectangles' = Restriction(rectangles, kept)
        ]_allVars

\* C20's case: three entries, committed on page 1, page 2 and page 1: the
\* listing of page 1 is the first and the third, in commit order.
C20_Witness ==
  /\ Len(rectangles) = 3
  /\ rectangles[1].pageNum = 1 /\ rectangles[1].id = 1
  /\ rectangles[2].pageNum = 2
  /\ rectangles[3].pageNum = 1 /\ rectangles[3].id = 2

\* C21: with a document loaded, ArrowRight and 'n' each take exactly the
\* step of goToPage(currentPage + 1), the Next button's step where that
\* button is enabled, and ArrowLeft and 'p' exactly the step of
\* goToPage(currentPage - 1), the Prev button's; with no document loaded a
\* key press changes nothing of the session.
C21_KeysAreNextAndPrev ==
  [][ \A key \in Keys :
        handleKeyPress(key)
        => /\ (pdfDoc # NoFile /\ key \in {"ArrowRight", "n"})
                => /\ goToPage(currentPage + 1) /\ navFrame
                   /\ currentPage # totalPages => NextButton
           /\ (pdfDoc # NoFile /\ key \in {"ArrowLeft", "p"})
                => /\ goToPage(currentPage - 1) /\ navFrame
                   /\ currentPage # 1 => PrevButton
           /\ pdfDoc = NoFile
                => UNCHANGED << viewerVars, sideVars, variant, docVars, currentPage,
                                rectangles, gestureVars, jumpToPage, loading, now,
                                pressPage >>
    ]_allVars

\* C21's case: a document of two pages, and the session back on page 1 with
\* the page-2 state of a navigation behind it (a gesture pressed on page 2).
C21_Witness ==
  /\ pdfDoc # NoFile
  /\ totalPages = 2
  /\ currentPage = 1
  /\ pressPage = 2
  /\ isDrawing

\* C22: in point mode a click whose position the transform yields appends
\* exactly one point, at that position rounded and on the page current at
\* the click, after the unchanged older points; a click whose transform
\* yields null appends nothing; and the machine is never Dragging.
C22_ClickCommitsOnePoint ==
  /\ [](variant = "point" => (~isDrawing /\ startPos.null /\ currentRect.null))
  /\ [][ \A e \in PointerEvents :
            handleCanvasClick(e)
            => LET pos == getCanvasCoordinatesPoint(e)
                   n   == Len(rectangles)
               IN  IF pos.null
                   THEN rectangles' = rectangles
                   ELSE /\ Len(rectangles') = n + 1
                        /\ SubSeq(rectangles', 1, n) = rectangles
                        /\ rectangles'[n + 1].pageNum = currentPage
                        /\ rectangles'[n + 1].x = MathRound(pos.x)
                        /\ rectangles'[n + 1].y = MathRound(pos.y)
                        /\ currentPage' = currentPage
     ]_allVars

\* C22's case: two points, the first clicked on page 1 and the second on
\* page 2.
C22_Witness ==
  /\ variant = "point"
  /\ Len(rectangles) = 2
  /\ rectangles[1].pageNum = 1
  /\ rectangles[2].pageNum = 2
  /\ currentPage = 2

\* every coordinate recorded in the gesture and in the store is finite
RecordedCoordinatesFinite ==
  /\ isFinite(startPos.x) /\ isFinite(startPos.y)
  /\ isFinite(currentRect.x1) /\ isFinite(currentRect.y1)
  /\ isFinite(currentRect.x2) /\ isFinite(currentRect.y2)
  /\ \A i \in 1 .. Len(rectangles) :
       /\ isFinite(rectangles[i].x) /\ isFinite(rectangles[i].y)
       /\ RectangleMode
            => isFinite(rectangles[i].width) /\ isFinite(rectangles[i].height)

\* C23: a pointer-down, pointer-move or click on a canvas whose displayed
\* box has zero width or height changes neither the gesture nor the store,
\* and no non-finite coordinate is ever recorded in the gesture or in a
\* stored region.
C23_ZeroBoxSkipsEvent ==
  /\ []RecordedCoordinatesFinite
  /\ [][ \A e \in PointerEvents :
            ( /\ (e.rw = 0 \/ e.rh = 0)
              /\ (handleMouseDown(e) \/ handleMouseMove(e) \/ handleCanvasClick(e)) )
            => UNCHANGED << gestureVars, rectangles >>
     ]_allVars

\* C24: every load that is started ends; a load ended by its timer leaves
\* no document installed; and the decoding that completes after its load
\* was ended by the timer installs nothing.
C24_LoadEnds ==
  /\ \A f \in LoadFiles : (f \in loading) ~> (f \notin loading)
  /\ [][ \A f \in LoadFiles :
            /\ LoadTimedOut(f)
                 => (f \notin loading' /\ pdfDoc' = NoFile /\ totalPages' = 0)
            /\ LateCompletion(f)
                 => UNCHANGED << docVars, currentPage, rectangles, loading >>
     ]_allVars

\* C25: in every reachable state isDrawing holds iff startPos is set iff
\* currentRect is set.
C25_GestureDataOnlyWhileDragging ==
  /\ isDrawing <=> ~startPos.null
  /\ isDrawing <=> ~currentRect.null

\* C26: a pointer-down received in Idle, at a position the transform
\* yields, moves the machine to Dragging with the start and the current
\* position both at that position; a pointer-down received while Dragging
\* leaves the start position of the gesture in progress as it is.
C26_PointerDownOnlyInIdle ==
  [][ \A e \in PointerEvents :
        handleMouseDown(e)
        => LET pos == getCanvasCoordinates(e)
           IN  /\ (Idle /\ ~pos.null)
                    => /\ isDrawing'
                       /\ startPos' = pos
                       /\ currentRect' = Rect(pos.x, pos.y, pos.x, pos.y)
               /\ Dragging => startPos' = startPos
    ]_allVars

\* C27: a pointer-move received while Dragging changes nothing but the
\* current rectangle, whose first corner is the start position and whose
\* second corner is the pointer's: the start position, the drawing flag,
\* the store, the current page and the document stay as they are.
C27_MoveChangesOnlyCurrent ==
  [][ \A e \in PointerEvents :
        (handleMouseMove(e) /\ Dragging)
        => /\ UNCHANGED << startPos, isDrawing, rectangles, currentPage, docVars, now >>
           /\ LET pos == getCanvasCoordinates(e)
              IN  \/ currentRect' = currentRect
                  \/ currentRect' = Rect(startPos.x, startPos.y, pos.x, pos.y)
    ]_allVars

\* C27's case: a gesture in progress whose current corner has moved away
\* from its start, with nothing stored.
C27_Witness ==
  /\ isDrawing
  /\ ~startPos.null /\ ~currentRect.null
  /\ currentRect.x1 = startPos.x /\ currentRect.y1 = startPos.y
  /\ currentRect.x2 # startPos.x /\ currentRect.y2 # startPos.y
  /\ rectangles = << >>

\* the state in which the guards of handleMouseMove and handleMouseUp return
\* at once and onMouseLeave assigns what is already there
Quiet == ~isDrawing /\ currentRect.null

\* C28: the machine is Idle when no pointer-down was received since the
\* last release, pointer-leave or page change.  So every pointer-up,
\* pointer-leave and page-changing navigation leaves a state in which a
\* pointer-move, pointer-up or pointer-leave changes nothing of the session,
\* and that state lasts until the next pointer-down.
C28_IdleIgnoresPointer ==
  [][ /\ ( \/ \E e \in PointerEvents : handleMouseUp(e)
           \/ onMouseLeave
           \/ Navigation /\ currentPage' # currentPage )
         => Quiet'
      /\ (Quiet /\ ~(\E e \in PointerEvents : handleMouseDown(e))) => Quiet'
      /\ \A e \in PointerEvents :
           (Quiet /\ (handleMouseMove(e) \/ handleMouseUp(e) \/ onMouseLeave))
           => UNCHANGED << viewerVars, sideVars, variant, docVars, currentPage,
                           rectangles, gestureVars, jumpToPage, loading, now,
                           pressPage >>
    ]_allVars

\* a step of one of the callers of goToPage, calling goToPage(n)
GoTo(n) ==
  \/ NextButton /\ n = currentPage + 1
  \/ PrevButton /\ n = currentPage - 1
  \/ \E key \in {"ArrowRight", "n"} :
       handleKeyPress(key) /\ pdfDoc # NoFile /\ n = currentPage + 1
  \/ \E key \in {"ArrowLeft", "p"} :
       handleKeyPress(key) /\ pdfDoc # NoFile /\ n = currentPage - 1
  \/ (PageJumpGo \/ PageJumpEnter) /\ parseInt(jumpToPage) = Fin(n)

\* C29: goToPage(n) with 1 <= n <= totalPages raises no error, makes n the
\* current page, leaves the machine Idle and leaves the store unchanged, in
\* every variant.
C29_GoToInRange ==
  [][ \A n \in 1 .. MaxPages :
        (GoTo(n) /\ n <= totalPages)
        => /\ ~raised'
           /\ currentPage' = n
           /\ Idle'
           /\ rectangles' = rectangles
    ]_allVars

\* C30: a pointer-up that commits a region does so on the page on which
\* the gesture was pressed: the page current at the pointer-down is the
\* page current at the pointer-up, and it is the region's pageNum.
C30_RegionOnPressPage ==
  [][ \A e \in PointerEvents :
        (handleMouseUp(e) /\ Len(rectangles') = Len(rectangles) + 1)
        => /\ pressPage = currentPage
           /\ rectangles'[Len(rectangles')].pageNum = pressPage
    ]_allVars

\* the load of f ends: it succeeds, fails or is ended by its timer
LoadEnds(f) ==
  \/ \E n \in 0 .. MaxPages : LoadSucceeded(f, n)
  \/ LoadFailed(f)
  \/ LoadTimedOut(f)

\* the load started last has installed its document: pdfFile is the file
\* chosen last, and its load is over and left its document
LatestInstalled == pdfFile # NoFile /\ pdfFile \notin loading /\ pdfDoc = pdfFile

\* C31: when the load started last has installed its document, the end of a
\* load started before it, success or failure, leaves that document, its
\* page count, its current page, its store and its file as they are; and
\* once no load is in flight the stored file is the installed document's.
C31_EarlierLoadNeverOverrides ==
  /\ []((loading = {} /\ pdfDoc # NoFile) => pdfFile = pdfDoc)
  /\ [][ \A f \in LoadFiles :
            (LoadEnds(f) /\ LatestInstalled /\ f # pdfFile)
            => UNCHANGED << docVars, currentPage, rectangles >>
     ]_allVars

\* the runs of renderPage that have not settled
Pending(js) == {i \in JobIds : js[i].pc \in {"getPage", "render", "cancelled"}}

\* C32: the completion of a render, with the parent's state update that
\* onPageRender performs, starts no further run of renderPage, and neither
\* does a re-render of the parent that passes a new onPageRender: the runs
\* pending afterwards were pending before.
C32_RenderedPageIsQuiescent ==
  [][ ((\E j \in JobIds : RenderFinished(j)) \/ ParentRerender)
      => /\ Pending(jobs') \subseteq Pending(jobs)
         /\ \A i \in Pending(jobs') : jobs'[i].pc = "getPage" => jobs[i].pc = "getPage"
    ]_allVars

\* no run of the draw effect is due and no render is in flight
NothingPending == overlay.deps = Deps /\ Pending(jobs) = {}

\* C33: whenever no draw and no render is pending the overlay shows the
\* rectangles of the current page, and the rectangle in progress iff a
\* gesture is drawing; and when the completion of a render has cleared the
\* overlay, it shows them still or a run of the draw effect is due.
C33_OverlayShowsCurrentPage ==
  /\ [](NothingPending => overlay.shown = Content)
  /\ [][ (\E j \in JobIds : RenderFinished(j))
          => (overlay'.shown = Content' \/ overlay'.deps # Deps') ]_allVars

\* C34: deleting a region by id removes exactly one entry, one that has the
\* id, and leaves the other entries as they were, in their order; the removal
\* of an id that no entry has leaves the store as it is.
C34_DeleteRemovesExactlyOne ==
  /\ [](\A id \in 1 .. MaxClock :
          (\A i \in 1 .. Len(rectangles) : rectangles[i].id # id)
            => WithoutId(rectangles, id) = rectangles)
  /\ [][ \A id \in 1 .. MaxClock :
          handleDeleteRect(id)
            => \E i \in 1 .. Len(rectangles) :
                 /\ rectangles[i].id = id
                 /\ rectangles' = Restriction(rectangles, (1 .. Len(rectangles)) \ {i})
       ]_allVars

\* C35: every entry of the store is on a page of the installed document,
\* 1 <= pageNum <= totalPages; and the step that installs a document, fails
\* a load or goes Home leaves no entry in the store.
C35_StoreOnInstalledPages ==
  /\ [](\A i \in 1 .. Len(rectangles) :
          1 <= rectangles[i].pageNum /\ rectangles[i].pageNum <= totalPages)
  /\ [][ (\/ \E f \in Files, n \in 0 .. MaxPages : LoadSucceeded(f, n)
          \/ \E f \in Files : LoadFailed(f) /\ variant # "state"
          \/ handleHome)
          => rectangles' = << >> ]_allVars

\* C36: the step that installs a document leaves a fresh session:
\* currentPage = 1, totalPages = the page count of the document, which is at
\* least 1, an empty store and the drawing machine Idle, whatever the state
\* was while the load was in flight.
C36_InstallStartsFreshSession ==
  [][ \A f \in Files, n \in 0 .. MaxPages :
        (LoadSucceeded(f, n) /\ pdfDoc' = f)
          => /\ currentPage' = 1
             /\ totalPages' = n /\ n >= 1
             /\ rectangles' = << >>
             /\ ~isDrawing' /\ startPos' = NullPos /\ currentRect' = NullRect
    ]_allVars

\* C37: Home completes without an error and leaves the session empty: no
\* document, no file, no file name, currentPage = 1, totalPages = 0, an empty
\* store and no active gesture.
C37_HomeResetsWithoutError ==
  [][ handleHome
        => /\ ~raised'
           /\ pdfDoc' = NoFile /\ pdfFile' = NoFile /\ pdfFileName' = NoFile
           /\ currentPage' = 1 /\ totalPages' = 0
           /\ rectangles' = << >>
           /\ ~isDrawing' /\ startPos' = NullPos /\ currentRect' = NullRect
    ]_allVars

\* C38 as stated: at every moment at most one keydown handler is registered
\* on window, while the App is mounted it is the handler that refers to the
\* current pdfDoc, currentPage and totalPages, and after the App is torn down
\* none is registered.
C38_HandlerCurrentAtEveryMoment ==
  /\ Cardinality(listeners.handlers) <= 1
  /\ listeners.mounted => listeners.handlers = {Closure}
  /\ ~listeners.mounted => listeners.handlers = {}

\* C38: at every moment at most one keydown handler is registered on window;
\* once the keyboard effect of the last commit has run it is the handler that
\* refers to the current pdfDoc, currentPage and totalPages; and after the
\* App is torn down none is registered.
C38_OneKeydownHandler ==
  /\ Cardinality(listeners.handlers) <= 1
  /\ KeysReady => listeners.handlers = {Closure}
  /\ ~listeners.mounted => listeners.handlers = {}

\* C38's case: the effect has run again for page 2 of a loaded document, and
\* the App has then been torn down.
C38_Witness ==
  /\ ~listeners.mounted
  /\ pdfDoc # NoFile /\ currentPage = 2
  /\ listeners.last = Closure

\* C39: in the variants that store points, the normalized fields of every
\* entry of the store are the conversions of its pixel fields:
\* xPoints = pixelsToPoints(x) and yPoints = pixelsToPoints(y), and for a
\* rectangle widthPoints = pixelsToPoints(width) and
\* heightPoints = pixelsToPoints(height).
C39_PointsAreConvertedPixels ==
  \A i \in 1 .. Len(rectangles) :
    LET rect == rectangles[i]
    IN  /\ variant # "state"
          => /\ rect.xPoints = pixelsToPoints(Whole(rect.x))
             /\ rect.yPoints = pixelsToPoints(Whole(rect.y))
        /\ variant = "ref"
          => /\ rect.widthPoints = pixelsToPoints(Whole(rect.width))
             /\ rect.heightPoints = pixelsToPoints(Whole(rect.height))

============================================================================
